---- MODULE Spec2Model ----
(***************************************************************************)
(* Model of packages/jaeger-ui/src/components/DependencyGraph/DAG.tsx:     *)
(* the bounded breadth-first neighbourhood extraction                      *)
(* (findConnectedServices), the graph formatter (formatServiceCalls) and   *)
(* the DAG component's hooks (data memo, LayoutManager memo, release       *)
(* effect, match-count effect, node-count ceiling).                        *)
(*                                                                         *)
(* Strings are sequences of one-character strings, so that trim,           *)
(* toLowerCase and includes are computed and not assumed.                  *)
(***************************************************************************)
EXTENDS Integers, Sequences, FiniteSets, TLC

VARIABLES
    \* one call of formatServiceCalls (specification Spec)
    fmtArgs,        \* [serviceCalls, selectedService, selectedDepth]
    fmtResult,      \* the returned [nodes, edges]
    fmtPc,          \* "called" | "returned"
    \* one run of findConnectedServices, one loop iteration per step (SpecBFS)
    serviceCalls,   \* TServiceCall[]
    startService,
    maxDepth,
    nodes,          \* Set<string>, in insertion order
    edges,          \* TServiceCall[]
    queue,          \* {service, depth}[]
    bfsPc,          \* "loop" | "returned" ("idle" outside SpecBFS)
    enqueued,       \* history: every pair ever pushed on the queue, in order
    \* the mounted DAG component (SpecDAG)
    props,          \* TProps of the latest render
    dataMemo,       \* useMemo cell of `data`: [deps, ref, value]
    lmMemo,         \* useMemo cell of `layoutManager`: [deps, value]
    releaseEffect,  \* useEffect cell, lines 178-182: the instance its cleanup holds
    matchEffect,    \* useEffect cell, lines 184-193: the deps of its last run
    output,         \* what the last render returned
    created,        \* LayoutManager instances constructed so far (ids 1..created)
    released,       \* instance id -> number of stopAndRelease() calls
    callbackLog,    \* history: the onMatchCountChange calls of the last commit, [cb, value]
    changes,        \* history: what the last render changed against the one before
    dagPc,          \* "unmounted" | "rendered" | "committed" | "removed" ("idle" outside SpecDAG)
    renders,        \* number of renders so far
    arrays          \* number of serviceCalls array objects allocated by the parent

fmtVars == <<fmtArgs, fmtResult, fmtPc>>
bfsVars == <<serviceCalls, startService, maxDepth, nodes, edges, queue, bfsPc, enqueued>>
dagVars == <<props, dataMemo, lmMemo, releaseEffect, matchEffect, output, created,
             released, callbackLog, changes, dagPc, renders, arrays>>
vars == <<fmtVars, bfsVars, dagVars>>

----------------------------------------------------------------------------
(* Bounds *)

MaxCalls == 2       \* longest serviceCalls array given to formatServiceCalls
MaxBfsCalls == 3    \* longest serviceCalls array given to findConnectedServices
MaxDepth == 2       \* largest selectedDepth given to formatServiceCalls
MaxRenders == 2     \* renders of the component before it is left alone

----------------------------------------------------------------------------
(* Strings *)

Empty == <<>>
Blank == <<" ">>
ValueOf == <<"v", "a", "l", "u", "e", "O", "f">>

\* JavaScript null / undefined
\* (one-element sequences whose element is no character: equal to no string)
Null == <<"null">>
Undefined == <<"undefined">>

WhiteSpace == {" ", "\t", "\n"}

RECURSIVE TrimStart(_)
TrimStart(s) ==
    IF s # <<>> /\ Head(s) \in WhiteSpace THEN TrimStart(Tail(s)) ELSE s

RECURSIVE TrimEnd(_)
TrimEnd(s) ==
    IF s # <<>> /\ s[Len(s)] \in WhiteSpace
    THEN TrimEnd(SubSeq(s, 1, Len(s) - 1))
    ELSE s

\* String.prototype.trim
Trim(s) == TrimEnd(TrimStart(s))

ToLowerChar(c) ==
    CASE c = "A" -> "a"
      [] c = "B" -> "b"
      [] c = "F" -> "f"
      [] c = "O" -> "o"
      [] OTHER -> c

\* String.prototype.toLowerCase
ToLowerCase(s) == [i \in 1..Len(s) |-> ToLowerChar(s[i])]

\* String.prototype.includes
Includes(s, sub) ==
    \E off \in 0..(Len(s) - Len(sub)) : SubSeq(s, off + 1, off + Len(sub)) = sub

\* Property names every plain object literal inherits from Object.prototype:
\* reading them from `{}` gives a truthy value.
ObjectPrototypeKeys ==
    {ValueOf,
     <<"t", "o", "S", "t", "r", "i", "n", "g">>,
     <<"c", "o", "n", "s", "t", "r", "u", "c", "t", "o", "r">>,
     <<"_", "_", "p", "r", "o", "t", "o", "_", "_">>}

----------------------------------------------------------------------------
(* findConnectedServices, DAG.tsx lines 55-83 *)

Has(set, x) == \E i \in 1..Len(set) : set[i] = x

\* Set.prototype.add: insertion order, no duplicates
Add(set, x) == IF Has(set, x) THEN set ELSE Append(set, x)

Elems(seq) == {seq[i] : i \in 1..Len(seq)}

\* lines 69-73 without the test of line 69's nodes.has
VisitChildUnchecked(st, call, service, depth) ==
    IF call.parent = service
    THEN [nodes |-> Add(st.nodes, call.child),
          edges |-> Append(st.edges, call),
          queue |-> Append(st.queue, [service |-> call.child, depth |-> depth + 1])]
    ELSE st

\* lines 69-73
VisitChild(st, call, service, depth) ==
    IF call.parent = service /\ ~Has(st.nodes, call.child)
    THEN [nodes |-> Add(st.nodes, call.child),
          edges |-> Append(st.edges, call),
          queue |-> Append(st.queue, [service |-> call.child, depth |-> depth + 1])]
    ELSE st

\* lines 74-78 without line 76's edges.push
VisitParentNoEdge(st, call, service, depth) ==
    IF call.child = service /\ ~Has(st.nodes, call.parent)
    THEN [nodes |-> Add(st.nodes, call.parent),
          edges |-> st.edges,
          queue |-> Append(st.queue, [service |-> call.parent, depth |-> depth + 1])]
    ELSE st

\* lines 74-78
VisitParent(st, call, service, depth) ==
    IF call.child = service /\ ~Has(st.nodes, call.parent)
    THEN [nodes |-> Add(st.nodes, call.parent),
          edges |-> Append(st.edges, call),
          queue |-> Append(st.queue, [service |-> call.parent, depth |-> depth + 1])]
    ELSE st

\* lines 68-79: serviceCalls.forEach(call => ...), from index i on
RECURSIVE ForEachCall(_, _, _, _, _)
ForEachCall(st, calls, i, service, depth) ==
    IF i > Len(calls) THEN st
    ELSE ForEachCall(
            VisitParent(VisitChild(st, calls[i], service, depth), calls[i], service, depth),
            calls, i + 1, service, depth)

\* line 66 with > for >=
ExpandsInclusive(depth, max) == ~(depth > max)

\* line 66 with the depth test dropped for the start pair
ExpandsStart(depth, max) == depth = 0 \/ ~(depth >= max)

\* lines 65-66: whether the dequeued pair is expanded
Expands(depth, max) == ~(depth >= max)

\* lines 65-79: one iteration of the while loop
Iteration(st, calls, max) ==
    LET head == Head(st.queue)
        popped == [st EXCEPT !.queue = Tail(st.queue)]
    IN  IF Expands(head.depth, max)
        THEN ForEachCall(popped, calls, 1, head.service, head.depth)
        ELSE popped

\* lines 60-62
BfsStart(start) ==
    [nodes |-> <<start>>,
     edges |-> <<>>,
     queue |-> <<[service |-> start, depth |-> 0]>>]

\* lines 64-80
RECURSIVE WhileQueue(_, _, _)
WhileQueue(st, calls, max) ==
    IF Len(st.queue) > 0 THEN WhileQueue(Iteration(st, calls, max), calls, max) ELSE st

findConnectedServices(calls, start, max) ==
    LET st == WhileQueue(BfsStart(start), calls, max)
    IN  [nodes |-> st.nodes, edges |-> st.edges]

----------------------------------------------------------------------------
(* formatServiceCalls, DAG.tsx lines 85-135 *)

\* `${d.callCount}`
Label(call) == ToString(call.callCount)

ToEdge(call) == [from |-> call.parent, to |-> call.child, label |-> Label(call)]

ToVertex(key) == [key |-> key]

\* line 99
WellFormed(d) == Len(Trim(d.parent)) # 0 /\ Len(Trim(d.child)) # 0

\* lines 100, 105: nodeMap[k] read from an object literal
NodeMapGet(nodeMap, k) == k \in nodeMap \/ k \in ObjectPrototypeKeys

\* lines 100-108 without the nodeMap test
PushVertexAlways(acc, k) ==
    [acc EXCEPT !.nodes = Append(@, ToVertex(k)), !.nodeMap = @ \cup {k}]

\* lines 100-108: push a vertex for k unless nodeMap[k] is truthy
PushVertex(acc, k) ==
    IF ~NodeMapGet(acc.nodeMap, k)
    THEN [acc EXCEPT !.nodes = Append(@, ToVertex(k)), !.nodeMap = @ \cup {k}]
    ELSE acc

\* lines 98-116
RECURSIVE Unfiltered(_, _, _)
Unfiltered(acc, calls, i) ==
    IF i > Len(calls) THEN acc
    ELSE IF WellFormed(calls[i])
         THEN LET a1 == PushVertex(acc, calls[i].parent)
                  a2 == PushVertex(a1, calls[i].child)
              IN  Unfiltered([a2 EXCEPT !.edges = Append(@, ToEdge(calls[i]))], calls, i + 1)
         ELSE Unfiltered(acc, calls, i + 1)

\* line 93: !selectedService
Falsy(s) == s = Null \/ s = Undefined \/ s = Empty

\* lines 127-134
Focal(calls, selectedService, selectedDepth) ==
    LET c == findConnectedServices(calls, selectedService, selectedDepth)
    IN  [nodes |-> [i \in 1..Len(c.nodes) |-> ToVertex(c.nodes[i])],
         edges |-> [i \in 1..Len(c.edges) |-> ToEdge(c.edges[i])]]

formatServiceCalls(calls, selectedService, selectedDepth) ==
    IF Falsy(selectedService)
    THEN LET r == Unfiltered([nodeMap |-> {}, nodes |-> <<>>, edges |-> <<>>], calls, 1)
         IN  [nodes |-> r.nodes, edges |-> r.edges]
    ELSE Focal(calls, selectedService, selectedDepth)

----------------------------------------------------------------------------
(* Inputs *)

\* service names formatServiceCalls is tried on
FormatNames == {Empty, Blank, <<"a">>, <<"b">>, ValueOf}

\* service names findConnectedServices is tried on
BfsNames == {<<"a">>, <<"b">>, <<"c">>}

\* the depths findConnectedServices is tried on
BfsDepths == {0, 1, 2}

\* the arrays of exactly n calls over `names`; the i-th call has callCount i
CallListsOfLen(names, n) ==
    {[i \in 1..n |-> [parent |-> f[i][1], child |-> f[i][2], callCount |-> i]] :
        f \in [1..n -> names \X names]}

CallLists(names, n) == UNION {CallListsOfLen(names, k) : k \in 0..n}

FmtIdle == fmtArgs = Null /\ fmtResult = Null /\ fmtPc = "idle"

BfsIdle ==
    /\ serviceCalls = <<>> /\ startService = Null /\ maxDepth = 0
    /\ nodes = <<>> /\ edges = <<>> /\ queue = <<>>
    /\ bfsPc = "idle" /\ enqueued = <<>>

DagIdle ==
    /\ props = Null /\ dataMemo = Null /\ lmMemo = Null
    /\ releaseEffect = Null /\ matchEffect = Null /\ output = Null
    /\ created = 0 /\ released = <<>> /\ callbackLog = Null /\ changes = Null
    /\ dagPc = "idle" /\ renders = 0 /\ arrays = 0

----------------------------------------------------------------------------
(* Spec: one call of formatServiceCalls on every bounded input *)

Init ==
    /\ fmtArgs \in [serviceCalls : CallLists(FormatNames, MaxCalls),
                     selectedService : FormatNames \cup {Null},
                     selectedDepth : 0..MaxDepth]
    /\ fmtResult = Null
    /\ fmtPc = "called"
    /\ BfsIdle
    /\ DagIdle

Format ==
    /\ fmtPc = "called"
    /\ fmtPc' = "returned"
    /\ fmtResult' = formatServiceCalls(fmtArgs.serviceCalls, fmtArgs.selectedService,
                                       fmtArgs.selectedDepth)
    /\ UNCHANGED <<fmtArgs, bfsVars, dagVars>>

Next == Format

Spec == Init /\ [][Next]_vars

----------------------------------------------------------------------------
(* SpecBFS: findConnectedServices, one iteration of its while loop per step *)

\* findConnectedServices only compares names for equality, so every run is a
\* renaming of one that starts at "a"; with three names no service is further
\* than two hops away.
InitBFS ==
    /\ serviceCalls \in CallLists(BfsNames, MaxBfsCalls)
    /\ startService = <<"a">>
    /\ maxDepth \in BfsDepths
    /\ nodes = BfsStart(startService).nodes
    /\ edges = BfsStart(startService).edges
    /\ queue = BfsStart(startService).queue
    /\ enqueued = queue
    /\ bfsPc = "loop"
    /\ FmtIdle
    /\ DagIdle

\* line 64 true, lines 65-79
BfsIteration ==
    /\ bfsPc = "loop"
    /\ Len(queue) > 0
    /\ LET st == Iteration([nodes |-> nodes, edges |-> edges, queue |-> queue],
                           serviceCalls, maxDepth)
       IN  /\ nodes' = st.nodes
           /\ edges' = st.edges
           /\ queue' = st.queue
           /\ enqueued' = enqueued \o SubSeq(st.queue, Len(queue), Len(st.queue))
    /\ UNCHANGED <<serviceCalls, startService, maxDepth, bfsPc, fmtVars, dagVars>>

\* line 64 false, line 82
BfsReturn ==
    /\ bfsPc = "loop"
    /\ Len(queue) = 0
    /\ bfsPc' = "returned"
    /\ UNCHANGED <<serviceCalls, startService, maxDepth, nodes, edges, queue, enqueued,
                   fmtVars, dagVars>>

NextBFS == BfsIteration \/ BfsReturn

\* the loop is straight-line synchronous code: it keeps running until it returns
SpecBFS == InitBFS /\ [][NextBFS]_vars /\ WF_vars(NextBFS)

----------------------------------------------------------------------------
(* SpecDAG: the DAG component, DAG.tsx lines 139-236, under React's hooks.   *)
(* Render is one call of the function DAG (the render phase); CommitEffects *)
(* is React running the passive effects of that render (cleanups of the     *)
(* effects whose dependencies changed, then their bodies), which it does     *)
(* before the next render or the unmount; Unmount runs the remaining         *)
(* cleanups.                                                                 *)

\* imported from ../../constants (line 22)
DAG_MAX_NUM_SERVICES == 2

Foo == <<"F", "o", "o">>
Bar == <<"b", "a", "r">>
Baz == <<"b", "a", "z">>

Cb1 == <<"callback 1">>
Cb2 == <<"callback 2">>

DagCallLists ==
    {<<[parent |-> Foo, child |-> Bar, callCount |-> 1]>>,
     <<[parent |-> Foo, child |-> Bar, callCount |-> 1],
       [parent |-> Baz, child |-> Foo, callCount |-> 2]>>}

DagLayouts == {"dot", "sfdp"}
DagServices == {Empty, Foo}
DagDepths == {1}
DagUiFinds == {Undefined, Empty, <<"f", "O">>}
DagCallbacks == {Undefined, Cb1, Cb2}

KeySet(vertices) == {vertices[i].key : i \in 1..Len(vertices)}

\* Object.is on two dependency arrays
SameDeps(a, b) == a = b

Min(a, b) == IF a < b THEN a ELSE b

\* lines 155-173
LayoutConfig(selectedLayout, n) ==
    IF selectedLayout = "dot"
    THEN [engine |-> "dot", dpi |-> 0]
    ELSE [engine |-> "sfdp", dpi |-> IF n > 100 THEN Min(n * 2, 2000) ELSE 300]

\* line 152 with >= for >
ForceFocalAtCeiling(n) == n >= DAG_MAX_NUM_SERVICES

\* line 152
ForceFocalServiceSelection(n) == n > DAG_MAX_NUM_SERVICES

\* lines 195-235: what the render returns
Rendered(p, data, layoutManager) ==
    IF ForceFocalServiceSelection(Len(data.nodes))
    THEN [kind |-> "error", count |-> Len(data.nodes),
          layoutManager |-> 0, edges |-> <<>>, vertices |-> <<>>]
    ELSE [kind |-> "digraph", count |-> Len(data.nodes),
          layoutManager |-> layoutManager, edges |-> data.edges, vertices |-> data.nodes]

\* lines 186-188 without the two toLowerCase calls
MatchCountCaseSensitive(vertices, uiFind) ==
    Cardinality({i \in 1..Len(vertices) : Includes(vertices[i].key, uiFind)})

\* lines 186-188
MatchCount(vertices, uiFind) ==
    Cardinality({i \in 1..Len(vertices) :
                    Includes(ToLowerCase(vertices[i].key), ToLowerCase(uiFind))})

\* line 185: uiFind && onMatchCountChange
Truthy(x) == ~Falsy(x)

\* lines 185-192: the calls the effect body makes, as a sequence of [cb, value]
MatchEffectBody(vertices, uiFind, onMatchCountChange) ==
    IF Truthy(uiFind) /\ Truthy(onMatchCountChange)
    THEN <<[cb |-> onMatchCountChange, value |-> MatchCount(vertices, uiFind)]>>
    ELSE IF Truthy(onMatchCountChange)
         THEN <<[cb |-> onMatchCountChange, value |-> 0]>>
         ELSE <<>>

\* lines 147-150: the dependencies of the data memo
DataDeps(p) == <<p.serviceCalls.ref, p.selectedService, p.selectedDepth>>

\* line 176: the dependencies of the layoutManager memo
LayoutDeps(p, data) == <<p.selectedLayout, Len(data.nodes)>>

\* line 193: the dependencies of the match-count effect
MatchDeps(p, data) == <<data.ref, p.uiFind, p.onMatchCountChange>>

\* the props a parent may pass next: any, with the same serviceCalls array
\* object or with a newly allocated one
NextProps ==
    {[serviceCalls |-> sc, selectedLayout |-> l, selectedDepth |-> d,
      selectedService |-> s, uiFind |-> u, onMatchCountChange |-> cb] :
        sc \in (IF dagPc = "unmounted" THEN {} ELSE {props.serviceCalls})
                 \cup {[ref |-> arrays + 1, calls |-> c] : c \in DagCallLists},
        l \in DagLayouts, d \in DagDepths, s \in DagServices,
        u \in DagUiFinds, cb \in DagCallbacks}

InitDAG ==
    /\ props = Null /\ dataMemo = Null /\ lmMemo = Null
    /\ releaseEffect = Null /\ matchEffect = Null /\ output = Null
    /\ created = 0 /\ released = <<>>
    /\ callbackLog = Null /\ changes = Null
    /\ dagPc = "unmounted" /\ renders = 0 /\ arrays = 0
    /\ FmtIdle
    /\ BfsIdle

\* lines 139-236: one call of DAG(p)
Render(p) ==
    LET mount == dagPc = "unmounted"
        data == IF mount \/ ~SameDeps(dataMemo.deps, DataDeps(p))
                THEN LET v == formatServiceCalls(p.serviceCalls.calls, p.selectedService,
                                                 p.selectedDepth)
                     IN  [deps |-> DataDeps(p),
                          ref |-> IF mount THEN 1 ELSE dataMemo.ref + 1,
                          nodes |-> v.nodes, edges |-> v.edges]
                ELSE dataMemo
        fresh == mount \/ ~SameDeps(lmMemo.deps, LayoutDeps(p, data))
        lm == IF fresh
              THEN [deps |-> LayoutDeps(p, data), value |-> created + 1,
                    config |-> LayoutConfig(p.selectedLayout, Len(data.nodes))]
              ELSE lmMemo
    IN  /\ props' = p
        /\ arrays' = IF p.serviceCalls.ref > arrays THEN p.serviceCalls.ref ELSE arrays
        /\ dataMemo' = data
        /\ lmMemo' = lm
        /\ created' = IF fresh THEN created + 1 ELSE created
        /\ released' = IF fresh THEN Append(released, 0) ELSE released
        /\ output' = Rendered(p, data, lm.value)
        /\ renders' = renders + 1
        /\ dagPc' = "rendered"
        /\ changes' =
              [mount |-> mount,
               createdBefore |-> created,
               selectedLayout |-> mount \/ p.selectedLayout # props.selectedLayout,
               nodeCount |-> mount \/ Len(data.nodes) # Len(dataMemo.nodes),
               nodeSet |-> mount \/ KeySet(data.nodes) # KeySet(dataMemo.nodes),
               dataInputs |-> mount \/ p.serviceCalls.ref # props.serviceCalls.ref
                                   \/ p.selectedService # props.selectedService
                                   \/ p.selectedDepth # props.selectedDepth,
               uiFind |-> mount \/ p.uiFind # props.uiFind,
               onMatchCountChange |-> mount \/ p.onMatchCountChange # props.onMatchCountChange]
        /\ UNCHANGED <<releaseEffect, matchEffect, callbackLog>>

Mount ==
    /\ dagPc = "unmounted"
    /\ \E p \in NextProps : Render(p)
    /\ UNCHANGED <<fmtVars, bfsVars>>

Rerender ==
    /\ dagPc = "committed"
    /\ renders < MaxRenders
    /\ \E p \in NextProps : Render(p)
    /\ UNCHANGED <<fmtVars, bfsVars>>

\* lines 178-182 with no cleanup returned
ReleaseEffectNoCleanup(first) ==
    /\ releaseEffect' = lmMemo.value
    /\ UNCHANGED released

\* lines 178-182: the cleanup of the previous run, then the new run
ReleaseEffect(first) ==
    IF first
    THEN /\ releaseEffect' = lmMemo.value
         /\ UNCHANGED released
    ELSE IF lmMemo.value # releaseEffect
         THEN /\ released' = [released EXCEPT ![releaseEffect] = @ + 1]
              /\ releaseEffect' = lmMemo.value
         ELSE UNCHANGED <<releaseEffect, released>>

\* lines 184-193
MatchEffect(first) ==
    LET deps == MatchDeps(props, dataMemo)
        runs == first \/ ~SameDeps(matchEffect, deps)
        calls == IF runs
                 THEN MatchEffectBody(dataMemo.nodes, props.uiFind, props.onMatchCountChange)
                 ELSE <<>>
    IN  /\ matchEffect' = deps
        /\ callbackLog' = calls

CommitEffects ==
    /\ dagPc = "rendered"
    /\ ReleaseEffect(renders = 1)
    /\ MatchEffect(renders = 1)
    /\ dagPc' = "committed"
    /\ UNCHANGED <<props, dataMemo, lmMemo, output, created, changes, renders, arrays,
                   fmtVars, bfsVars>>

\* the component is removed: the cleanup of lines 179-181 runs
Unmount ==
    /\ dagPc = "committed"
    /\ released' = [released EXCEPT ![releaseEffect] = @ + 1]
    /\ dagPc' = "removed"
    /\ UNCHANGED <<props, dataMemo, lmMemo, releaseEffect, matchEffect, output, created,
                   callbackLog, changes, renders, arrays, fmtVars, bfsVars>>

NextDAG == Mount \/ Rerender \/ CommitEffects \/ Unmount

SpecDAG == InitDAG /\ [][NextDAG]_vars

----------------------------------------------------------------------------
(* Claims about findConnectedServices (SpecBFS) *)

\* the services at most k undirected hops from s
RECURSIVE Within(_, _, _)
Within(calls, s, k) ==
    IF k = 0 THEN {s}
    ELSE LET B == Within(calls, s, k - 1)
         IN  B \cup {calls[i].child : i \in {j \in 1..Len(calls) : calls[j].parent \in B}}
               \cup {calls[i].parent : i \in {j \in 1..Len(calls) : calls[j].child \in B}}

NoDuplicates(seq) == \A i, j \in 1..Len(seq) : seq[i] = seq[j] => i = j

\* C1: the node set returned by findConnectedServices is exactly the set of
\* services whose undirected hop distance from the focal service is at most
\* maxDepth; it always contains the focal service.
C1_NodesAreTheBall ==
    bfsPc = "returned" =>
        /\ Elems(nodes) = Within(serviceCalls, startService, maxDepth)
        /\ startService \in Elems(nodes)

\* a run cut by the depth: a service at distance maxDepth is in, one further out is not
C1_Witness ==
    /\ bfsPc = "returned"
    /\ maxDepth = 1
    /\ Len(nodes) = 2
    /\ \E i \in 1..Len(serviceCalls) :
          /\ serviceCalls[i].parent = nodes[2]
          /\ serviceCalls[i].child \notin Elems(nodes)

\* C8 as stated: every input call whose parent and child are both in the
\* returned node set appears in the returned edge list.
C8_AllInducedEdges ==
    bfsPc = "returned" =>
        \A i \in 1..Len(serviceCalls) :
            (serviceCalls[i].parent \in Elems(nodes) /\ serviceCalls[i].child \in Elems(nodes))
                => \E j \in 1..Len(edges) : edges[j] = serviceCalls[i]

\* C8 amended: the returned edges are the discovery edges. There is exactly one
\* per node other than the focal service, in discovery order: the j-th edge is
\* an input call joining the (j+1)-th node to a node discovered before it.
C8_DiscoveryEdges ==
    bfsPc = "returned" =>
        /\ Len(edges) = Len(nodes) - 1
        /\ \A j \in 1..Len(edges) :
              /\ \E i \in 1..Len(serviceCalls) : serviceCalls[i] = edges[j]
              /\ \/ edges[j].child = nodes[j + 1]
                    /\ \E k \in 1..j : edges[j].parent = nodes[k]
                 \/ edges[j].parent = nodes[j + 1]
                    /\ \E k \in 1..j : edges[j].child = nodes[k]

\* a call between two returned nodes, neither the focal service, is left out,
\* while a node was discovered against the direction of its call
C8_Witness ==
    /\ bfsPc = "returned"
    /\ Len(nodes) = 3
    /\ \E i \in 1..Len(serviceCalls) :
          /\ {serviceCalls[i].parent, serviceCalls[i].child} = {nodes[2], nodes[3]}
          /\ \A j \in 1..Len(edges) : edges[j] # serviceCalls[i]
    /\ \E j \in 1..Len(edges) : edges[j].child = startService

\* C9: findConnectedServices terminates: each service is added to the visited
\* set and enqueued at most once, every queued pair has depth at most maxDepth,
\* and the queue eventually becomes empty and the function returns.
C9_Terminates ==
    /\ [](bfsPc \in {"loop", "returned"} =>
            /\ NoDuplicates([i \in 1..Len(enqueued) |-> enqueued[i].service])
            /\ NoDuplicates(nodes)
            /\ Elems(nodes) = {enqueued[i].service : i \in 1..Len(enqueued)}
            /\ \A i \in 1..Len(enqueued) : enqueued[i].depth <= maxDepth
            /\ \A i \in 1..Len(queue) : \E k \in 1..Len(enqueued) : queue[i] = enqueued[k])
    /\ <>(bfsPc = "returned" /\ Len(queue) = 0)

\* a run over a cycle, a self-loop and a duplicate call has returned
C9_Witness ==
    /\ bfsPc = "returned"
    /\ Len(nodes) = 3
    /\ \E i, j \in 1..Len(serviceCalls) :
          /\ i # j
          /\ serviceCalls[i].parent = serviceCalls[j].child
          /\ serviceCalls[i].child = serviceCalls[j].parent
    /\ maxDepth = 2

----------------------------------------------------------------------------
(* Claims about formatServiceCalls (Spec) *)

Keys(result) == [i \in 1..Len(result.nodes) |-> result.nodes[i].key]

IsBlank(name) == Len(Trim(name)) = 0

Malformed(call) == IsBlank(call.parent) \/ IsBlank(call.child)

\* C2: with a non-empty focal service and selectedDepth = 0 the result has
\* exactly one vertex, the focal service, and zero edges.
C2_DepthZero ==
    (fmtPc = "returned" /\ ~Falsy(fmtArgs.selectedService) /\ fmtArgs.selectedDepth = 0) =>
        /\ fmtResult.nodes = <<[key |-> fmtArgs.selectedService]>>
        /\ fmtResult.edges = <<>>

\* depth 0 on a focal service that has a neighbour
C2_Witness ==
    /\ fmtPc = "returned"
    /\ fmtArgs.selectedService = <<"a">>
    /\ fmtArgs.selectedDepth = 0
    /\ \E i \in 1..Len(fmtArgs.serviceCalls) :
          /\ fmtArgs.serviceCalls[i].parent = <<"a">>
          /\ fmtArgs.serviceCalls[i].child = <<"b">>

\* C3: the returned vertex list holds each key at most once, in both modes, and
\* in unfiltered mode no returned vertex has an empty key.
C3_UniqueKeys ==
    fmtPc = "returned" =>
        /\ NoDuplicates(Keys(fmtResult))
        /\ Falsy(fmtArgs.selectedService) =>
              \A i \in 1..Len(fmtResult.nodes) : fmtResult.nodes[i].key # Empty

\* unfiltered mode on two calls that share a service, one of them with an empty name
C3_Witness ==
    /\ fmtPc = "returned"
    /\ Falsy(fmtArgs.selectedService)
    /\ Len(fmtArgs.serviceCalls) = 2
    /\ fmtArgs.serviceCalls[1].parent = fmtArgs.serviceCalls[1].child
    /\ fmtArgs.serviceCalls[2].child = Empty
    /\ Len(fmtResult.nodes) = 1

\* C4: a call whose parent or child is empty or whitespace-only contributes no
\* edge and no vertex, in unfiltered and in focal mode: no output edge comes
\* from such a call, and no output vertex key is blank (the focal service itself,
\* which no call contributes, set aside).
C4_MalformedFiltered ==
    fmtPc = "returned" =>
        /\ \A i \in 1..Len(fmtArgs.serviceCalls) :
              Malformed(fmtArgs.serviceCalls[i]) =>
                  \A j \in 1..Len(fmtResult.edges) :
                      fmtResult.edges[j] # ToEdge(fmtArgs.serviceCalls[i])
        /\ \A i \in 1..Len(fmtResult.nodes) :
              IsBlank(fmtResult.nodes[i].key) =>
                  fmtResult.nodes[i].key = fmtArgs.selectedService

\* C10: every output edge has its from and its to among the output vertex keys,
\* and is an input call in its own direction (from = parent, to = child).
C10_EdgesReferToVertices ==
    fmtPc = "returned" =>
        \A j \in 1..Len(fmtResult.edges) :
            /\ fmtResult.edges[j].from \in Elems(Keys(fmtResult))
            /\ fmtResult.edges[j].to \in Elems(Keys(fmtResult))
            /\ \E i \in 1..Len(fmtArgs.serviceCalls) :
                  fmtResult.edges[j] = ToEdge(fmtArgs.serviceCalls[i])

----------------------------------------------------------------------------
(* Claims about the DAG component (SpecDAG) *)

Live == dagPc \in {"rendered", "committed"}

\* the formatted node list of the current props, computed afresh
Formatted ==
    formatServiceCalls(props.serviceCalls.calls, props.selectedService, props.selectedDepth)

\* C5: on every render, if the formatted node count is greater than
\* DAG_MAX_NUM_SERVICES the output is the error panel (with the node count) and
\* no Digraph; otherwise the output is the Digraph on the formatted vertices and
\* edges, and no error panel.
C5_Ceiling ==
    Live =>
        LET data == Formatted
        IN  IF Len(data.nodes) > DAG_MAX_NUM_SERVICES
            THEN output.kind = "error" /\ output.count = Len(data.nodes)
            ELSE /\ output.kind = "digraph"
                 /\ output.vertices = data.nodes
                 /\ output.edges = data.edges
                 /\ output.layoutManager = lmMemo.value

\* a re-render over the ceiling with a focal service set, under the sfdp layout
C5_Witness ==
    /\ dagPc = "rendered"
    /\ renders = 2
    /\ output.kind = "error"
    /\ output.count = DAG_MAX_NUM_SERVICES + 1
    /\ props.selectedService = Foo
    /\ props.selectedLayout = "sfdp"

Unreleased == {i \in 1..created : released[i] = 0}

\* C6 as stated: the superseded instance is released before the new instance
\* replaces it: whenever the component holds an instance, every other instance
\* created so far has been released.
C6_ReleasedBeforeReplaced ==
    Live => \A i \in 1..created : i # lmMemo.value => released[i] >= 1

\* C6 amended: an instance is created only on mount or when selectedLayout or
\* the node count changed; the superseded instance is still unreleased when the
\* render has put the new one in its place, and is released (once) when that
\* render's effects are committed; after unmount every instance created has
\* been released exactly once.
C6_Lifecycle ==
    /\ \A i \in 1..created : released[i] <= 1
    /\ Live =>
          /\ lmMemo.value = created
          /\ created - changes.createdBefore \in {0, 1}
          /\ created # changes.createdBefore =>
                (changes.mount \/ changes.selectedLayout \/ changes.nodeCount)
    /\ dagPc = "rendered" =>
          Unreleased = {lmMemo.value} \cup (IF changes.mount THEN {} ELSE {releaseEffect})
    /\ dagPc = "committed" => releaseEffect = lmMemo.value /\ Unreleased = {lmMemo.value}
    /\ dagPc = "removed" => Unreleased = {}

\* two instances were created and the component is removed
C6_Witness ==
    /\ dagPc = "removed"
    /\ created = 2
    /\ released = <<1, 1>>

\* the match count the callback is owed for the current props
ExpectedCount ==
    IF Truthy(props.uiFind)
    THEN Cardinality({k \in KeySet(Formatted.nodes) :
                        Includes(ToLowerCase(k), ToLowerCase(props.uiFind))})
    ELSE 0

CalledOnce ==
    callbackLog = <<[cb |-> props.onMatchCountChange, value |-> ExpectedCount]>>

\* C7 as stated: with onMatchCountChange provided, after a render in which the
\* formatted node set, uiFind or the callback changed the callback is invoked
\* with the match count, and when none of the three changed it is not invoked.
C7_InvokedOnlyOnChange ==
    (dagPc = "committed" /\ Truthy(props.onMatchCountChange)) =>
        IF changes.nodeSet \/ changes.uiFind \/ changes.onMatchCountChange
        THEN CalledOnce
        ELSE callbackLog = <<>>

\* C7 amended: with onMatchCountChange provided, the callback is invoked, once
\* and with the match count (0 when uiFind is empty or absent), after every
\* render in which the node array was recomputed (the serviceCalls array object,
\* selectedService or selectedDepth changed, whether or not the node set did),
\* uiFind changed or the callback changed, and after the mount; otherwise it is
\* not invoked. Without a callback nothing is invoked.
C7_MatchCount ==
    dagPc = "committed" =>
        IF ~Truthy(props.onMatchCountChange) THEN callbackLog = <<>>
        ELSE IF changes.dataInputs \/ changes.uiFind \/ changes.onMatchCountChange
             THEN CalledOnce
             ELSE callbackLog = <<>>

\* a re-render with a new serviceCalls array of the same content: the node set,
\* uiFind and the callback are unchanged and the callback is invoked again,
\* with the count of the case-insensitive matches
C7_Witness ==
    /\ dagPc = "committed"
    /\ renders = 2
    /\ ~changes.nodeSet /\ ~changes.uiFind /\ ~changes.onMatchCountChange
    /\ changes.dataInputs
    /\ callbackLog = <<[cb |-> Cb1, value |-> 1]>>
    /\ props.uiFind = <<"f", "O">>

====
